---------------------------- MODULE Spec2Model ----------------------------
(***************************************************************************)
(* A model of BinanceApi-async: the client BinanceApi (src/src/lib.rs),    *)
(* the untagged Message decoder (src/src/messages.rs) and the supervising  *)
(* main loop with try_reconnect (src/src/main.rs).                         *)
(*                                                                         *)
(* Two specifications share the client's operations:                       *)
(*   Spec     the program main(): connect, subscribe, then the select!     *)
(*            loop racing next_message against the 24 h interval timer,    *)
(*            with try_reconnect;                                          *)
(*   SpecApi  a caller that invokes connect, disconnect, next_message,     *)
(*            subscribe and unsubscribe of one BinanceApi in any order.    *)
(*                                                                         *)
(* The WebSocket session (tokio-tungstenite's WebSocketStream) is the      *)
(* environment.  Of it the model keeps the closing handshake (wsState),    *)
(* the fused read side (ended) and the frames the client handed to it      *)
(* (sent), each with what became of it.                                    *)
(***************************************************************************)
EXTENDS Integers, Sequences, FiniteSets, TLC

(***************************************************************************)
(* Bounds of the model.                                                    *)
(***************************************************************************)
\* frames the peer delivers inside one next_message call before an error
MaxFrames == 2
\* frames a caller or the peer causes to be handed to one session
MaxSent == 2
\* refresh intervals that may elapse unserved
MaxMissed == 2

\* messages handed to main's match in one session
MaxHandled == 2

(***************************************************************************)
(* Program constants.                                                      *)
(***************************************************************************)
\* main.rs:82  `if attempts > 12`
ReconnectCap == 12
\* lib.rs:145  `id.unwrap_or(1)` and lib.rs:183 `"id": 1`
DefaultId == 1
\* messages.rs:16  `id: u8`
U8Max == 255

(***************************************************************************)
(* Channel identifiers (lib.rs: Feed, DepthLevel, Delay) and descriptors.  *)
(***************************************************************************)
DepthLevels == {5, 10, 20}

Delays == {"ONEHUNDRED", "ONETHOUSAND"}

Feed(kind, levels, delay) == [kind |-> kind, levels |-> levels, delay |-> delay]

FeedAggTrade == Feed("AggTrade", 0, "NA")

FeedTrade == Feed("Trade", 0, "NA")

FeedBookTicker == Feed("BookTicker", 0, "NA")

FeedFullDepth == Feed("FullDepth", 0, "NA")

FeedPartialDepth(levels, delay) == Feed("PartialDepth", levels, delay)

\* impl Display for DepthLevel
DepthLevelDisplay(levels) == ToString(levels)

\* Delay's Display with a suffix for either delay
DelayDisplayExplicit(delay) == IF delay = "ONEHUNDRED" THEN "@100ms" ELSE "@1000ms"

\* impl Display for Delay
DelayDisplay(delay) == IF delay = "ONEHUNDRED" THEN "@100ms" ELSE ""

\* FullDepth is todo!(): formatting it panics
FeedSupported(feed) == feed.kind # "FullDepth"

\* impl Display for Feed
FeedDisplay(feed) ==
    CASE feed.kind = "AggTrade" -> "aggTrade"
      [] feed.kind = "Trade" -> "trade"
      [] feed.kind = "PartialDepth" ->
            "depth" \o DepthLevelDisplay(feed.levels) \o DelayDisplay(feed.delay)
      [] feed.kind = "BookTicker" -> "bookTicker"

\* Symbol's Display lives in symbol.rs, which is not part of the sources:
\* the exchange's stream names carry the instrument in lower case.
SymbolDisplay(symbol) ==
    CASE symbol = "BTCUSDT" -> "btcusdt"
      [] symbol = "DOGEUSDT" -> "dogeusdt"

SubscribeInfo(symbol, feed) == [symbol |-> symbol, feed |-> feed]

\* format!("{}@{}", s.symbol, s.feed)
StreamName(info) == SymbolDisplay(info.symbol) \o "@" \o FeedDisplay(info.feed)

\* StreamNames collecting the names back to front
StreamNamesReversed(infos) ==
    [i \in 1..Len(infos) |-> StreamName(infos[Len(infos) + 1 - i])]

\* symbols.iter().map(..).collect(): one name per descriptor, in order
StreamNames(infos) == [i \in 1..Len(infos) |-> StreamName(infos[i])]

AllSupported(infos) == \A i \in 1..Len(infos) : FeedSupported(infos[i].feed)

(***************************************************************************)
(* Frames handed to the session.  One record shape for all of them, so     *)
(* that they can be kept in one log.                                       *)
(***************************************************************************)
OutFrame(type, method, params, id, bytes, code) ==
    [type |-> type, method |-> method, params |-> params, id |-> id,
     bytes |-> bytes, code |-> code]

\* the request text built by subscribe / unsubscribe
Request(method, infos, id) == OutFrame("Text", method, StreamNames(infos), id, 0, "")

\* subscribe: `id.unwrap_or(1)`; an Option is a sequence of at most one value
SubscribeRequest(infos, id) ==
    Request("SUBSCRIBE", infos, IF id = <<>> THEN DefaultId ELSE id[1])

\* unsubscribe: `"id": 1`
UnsubscribeRequest(infos) == Request("UNSUBSCRIBE", infos, DefaultId)

\* tungstenite::Message::Ping(vec), Pong(vec)
PingFrame(bytes) == OutFrame("Ping", "", <<>>, 0, bytes, "")

PongFrame(bytes) == OutFrame("Pong", "", <<>>, 0, bytes, "")

\* disconnect: CloseFrame { code: CloseCode::Normal, reason: "Normal" }
NormalClose == OutFrame("Close", "", <<>>, 0, 0, "Normal")

(***************************************************************************)
(* Inbound JSON payloads and the decoder (messages.rs).  A payload is the  *)
(* set of its top-level keys, each holding a value of the type the field   *)
(* wants, and the number under "id".                                       *)
(***************************************************************************)
Json(keys, id) == [keys |-> keys, id |-> id]

\* AGGTRADEMSG
AggTradeJson == Json({"e", "E", "a", "s", "p", "q", "f", "l", "T", "m"}, 0)

\* REALOB
DepthJson == Json({"lastUpdateId", "bids", "asks"}, 0)

\* BOOKTICKER
BookTickerJson == Json({"u", "s", "b", "B", "a", "A"}, 0)

\* {"result":null,"id":<id>}
AckJson(id) == Json({"result", "id"}, id)

\* a payload of none of the shapes, e.g. {"code":2,"msg":"Invalid request"}
ErrorJson == Json({"code", "msg"}, 0)

NoJson == Json({}, 0)

\* a field with #[serde(alias = a)] is read from key a or from its own name;
\* a payload that carries both is refused as a duplicate field
HasAliased(json, a, name) == (a \in json.keys) # (name \in json.keys)

\* struct AggTrade
MatchesAggTrade(json) ==
    /\ HasAliased(json, "E", "event_time")
    /\ HasAliased(json, "a", "trade_id")
    /\ HasAliased(json, "s", "symbol")
    /\ HasAliased(json, "p", "price")
    /\ HasAliased(json, "q", "quantity")
    /\ HasAliased(json, "f", "first_trade_id")
    /\ HasAliased(json, "l", "last_trade_id")
    /\ HasAliased(json, "T", "trade_time")
    /\ HasAliased(json, "m", "is_market_maker")

\* PartialDepth without rename_all: the keys are the Rust field names
MatchesPartialDepthSnakeCase(json) == {"last_update_id", "bids", "asks"} \subseteq json.keys

\* struct PartialDepth, rename_all = "camelCase"
MatchesPartialDepth(json) == {"lastUpdateId", "bids", "asks"} \subseteq json.keys

\* struct BookTicker, every field renamed
MatchesBookTicker(json) == {"u", "s", "b", "B", "a", "A"} \subseteq json.keys

\* SubscribeSuccess { result: Option<String>, id: u8 }: result may be absent
MatchesSubscribeSuccess(json) ==
    /\ "id" \in json.keys
    /\ json.id \in 0..U8Max

Decoded(variant, id) == [variant |-> variant, id |-> id]

DecodeError == Decoded("Err", 0)

\* Decode trying the variants in the order SubscribeSuccess, BookTicker,
\* PartialDepth, AggTrade
DecodeAckFirst(json) ==
    IF MatchesSubscribeSuccess(json) THEN Decoded("SubscribeSuccess", json.id)
    ELSE IF MatchesBookTicker(json) THEN Decoded("BookTicker", 0)
    ELSE IF MatchesPartialDepth(json) THEN Decoded("PartialDepth", 0)
    ELSE IF MatchesAggTrade(json) THEN Decoded("AggTrade", 0)
    ELSE DecodeError

\* serde_json::from_str::<Message>: #[serde(untagged)] tries the variants in
\* the order of their declaration and keeps the first that deserializes
Decode(json) ==
    IF MatchesAggTrade(json) THEN Decoded("AggTrade", 0)
    ELSE IF MatchesPartialDepth(json) THEN Decoded("PartialDepth", 0)
    ELSE IF MatchesBookTicker(json) THEN Decoded("BookTicker", 0)
    ELSE IF MatchesSubscribeSuccess(json) THEN Decoded("SubscribeSuccess", json.id)
    ELSE DecodeError

(***************************************************************************)
(* Inbound frames (tungstenite::Message as read from the stream).          *)
(***************************************************************************)
InFrame(type, json, bytes) == [type |-> type, json |-> json, bytes |-> bytes]

TextIn(json) == InFrame("Text", json, 0)

PingIn(bytes) == InFrame("Ping", NoJson, bytes)

PongIn(bytes) == InFrame("Pong", NoJson, bytes)

CloseIn == InFrame("Close", NoJson, 0)

BinaryIn == InFrame("Binary", NoJson, 0)

RawFrameIn == InFrame("Frame", NoJson, 0)

\* payloads the peer sends in text frames
TextPayloads == {AggTradeJson, AckJson(DefaultId), ErrorJson}

\* keep-alive payloads
KeepAlives == {7, 9}

\* a frame, as opposed to the other things a read can meet
IsFrame(wire) == wire.type \in {"Text", "Ping", "Pong", "Close", "Binary", "Frame"}

\* the frames the peer delivers
Frames ==
    {TextIn(j) : j \in TextPayloads}
        \cup {PingIn(b) : b \in KeepAlives}
        \cup {PongIn(b) : b \in KeepAlives}
        \cup {CloseIn, BinaryIn, RawFrameIn}

\* what the transport can bring besides a frame: the end of the byte stream
\* and an I/O error
EofIn == InFrame("Eof", NoJson, 0)

IoErrorIn == InFrame("IoError", NoJson, 0)

NoEvent == InFrame("NoEvent", NoJson, 0)

Events == Frames \cup {EofIn, IoErrorIn}

(***************************************************************************)
(* State.                                                                  *)
(***************************************************************************)
VARIABLES
    \* struct BinanceApi
    stream,         \* Option<WsStream>: "None" or "Some"
    connected,      \* bool
    live,           \* WsStream objects in existence
    \* the session held in `stream`
    wsState,        \* NoSession, Active, Broken, ClosedByUs, Closed, Terminated
    ended,          \* the stream's read side is fused: it yields None for ever
    sent,           \* frames handed to the session: [frame, outcome], in order
    \* the running or last next_message call
    consumed,       \* frames it read, in order
    lastRead,       \* its last stream.next(): [wire, result]
    nmResult,       \* NoCall, Pending, None or Some(message)
    crash,          \* "none", or the panic that aborted the program
    \* the caller
    pc,             \* position of main(), or of the caller of SpecApi
    lastOp,         \* the last operation of the client that was called
    \* main() and try_reconnect
    symbols,        \* main's `symbols`
    symbols0,       \* their value at start
    attempts,       \* try_reconnect's `attempts`
    tries,          \* connect attempts made in the current reconnect cycle
    sleeps,         \* 5 s sleeps taken in the current reconnect cycle
    rcResult,       \* what the last try_reconnect that returned, returned
    handled,        \* messages main's match has received in this session
    \* reconnection_timer
    pendingTicks,   \* ticks due and not yet returned by tick()
    backlog,        \* ticks that were due when the last interval elapsed
    burst           \* ticks returned by tick() since the last interval elapsed

clientVars == <<stream, connected, live>>

sessionVars == <<wsState, ended, sent>>

callVars == <<consumed, lastRead, nmResult>>

mainVars == <<symbols, symbols0, attempts, tries, sleeps, rcResult, handled>>

timerVars == <<pendingTicks, backlog, burst>>

vars == <<clientVars, sessionVars, callVars, crash, pc, lastOp, mainVars, timerVars>>

Sent(frame, outcome) == [frame |-> frame, outcome |-> outcome]

Read(wire, result) == [wire |-> wire, result |-> result]

NoRead == Read(NoEvent, "NoRead")

NmRes(kind, msg) == [kind |-> kind, msg |-> msg]

NoCall == NmRes("NoCall", DecodeError)

Pending == NmRes("Pending", DecodeError)

NmNone == NmRes("None", DecodeError)

NmSome(msg) == NmRes("Some", msg)

\* a new operation starts: the record of the last next_message call is dropped
ClearCall == consumed' = <<>> /\ lastRead' = NoRead /\ nmResult' = NoCall

(***************************************************************************)
(* The session: tokio_tungstenite::WebSocketStream (lib.rs:24, WsStream).  *)
(* wsState is                                                              *)
(*   Active      open in both directions;                                  *)
(*   Broken      open, but a write has failed on an I/O error: every       *)
(*               further write fails and the next read is an error;        *)
(*   ClosedByUs  the client has sent its close frame: the session refuses  *)
(*               every further frame (SendAfterClosing) and still reads;   *)
(*   Closed      the peer's close frame has been read: the session         *)
(*               refuses every further frame and reads none any more       *)
(*               (ReceivedAfterClosing);                                   *)
(*   Terminated  the byte stream has ended.                                *)
(* After an error or the end of the stream the read side yields None for   *)
(* ever (ended).                                                           *)
(***************************************************************************)
\* outcomes of stream.send(frame): written, lost on an I/O error, refused
SendOutcomes(state) ==
    CASE state = "Active" -> {"ok", "lost"}
      [] state = "Broken" -> {"lost"}
      [] OTHER -> {"rejected"}

\* stream.send(frame).await
WsSend(frame, outcome) ==
    /\ outcome \in SendOutcomes(wsState)
    /\ sent' = Append(sent, Sent(frame, outcome))
    /\ wsState' = IF outcome = "lost" THEN "Broken" ELSE wsState
    /\ UNCHANGED ended

\* socket.close(Some(frame)).await
WsClose(frame, outcome) ==
    /\ outcome \in SendOutcomes(wsState)
    /\ sent' = Append(sent, Sent(frame, outcome))
    /\ wsState' = IF wsState \in {"Active", "Broken"} THEN "ClosedByUs" ELSE wsState
    /\ UNCHANGED ended

\* what stream.next() yields for what the transport brings
WsRead(state, isEnded, wire) ==
    IF isEnded THEN "End"
    ELSE IF state \in {"Active", "ClosedByUs"}
         THEN (IF IsFrame(wire) THEN "Ok" ELSE "Err")
         ELSE (IF wire = EofIn /\ state = "Closed" THEN "End" ELSE "Err")

\* the handshake state after that read
WsStateAfterRead(state, isEnded, wire) ==
    IF isEnded THEN state
    ELSE IF wire = EofIn THEN "Terminated"
    ELSE IF wire = CloseIn /\ state \in {"Active", "ClosedByUs"} THEN "Closed"
    ELSE state

(***************************************************************************)
(* The client's operations (impl BinanceApi).  Each is the effect of one   *)
(* call on the client, its session and the record of the call; the caller  *)
(* adds its own position.                                                  *)
(***************************************************************************)
\* the client and its session as an operation finds them
Pre ==
    [stream |-> stream, connected |-> connected, wsState |-> wsState,
     ended |-> ended, nsent |-> Len(sent)]

Op(name, infos, id) == [name |-> name, infos |-> infos, id |-> id, pre |-> Pre]

NoOp ==
    [name |-> "none", infos |-> <<>>, id |-> <<>>,
     pre |-> [stream |-> "None", connected |-> FALSE, wsState |-> "NoSession",
              ended |-> FALSE, nsent |-> 0]]

\* BinanceApi::new()
New ==
    /\ stream = "None"
    /\ connected = FALSE
    /\ live = 0
    /\ wsState = "NoSession"
    /\ ended = FALSE
    /\ sent = <<>>
    /\ consumed = <<>>
    /\ lastRead = NoRead
    /\ nmResult = NoCall
    /\ crash = "none"
    /\ lastOp = NoOp

\* what Option::replace hands back, to be dropped at once: the old session
Replaced == IF stream = "Some" THEN 1 ELSE 0

\* Connect that drops the session it holds when the new one cannot be made
ConnectFailClears(ok) ==
    /\ lastOp' = Op("connect", <<>>, <<>>)
    /\ ClearCall
    /\ IF ok
       THEN /\ stream' = "Some"
            /\ connected' = TRUE
            /\ live' = live + 1 - Replaced
            /\ wsState' = "Active"
            /\ ended' = FALSE
            /\ sent' = <<>>
       ELSE /\ stream' = "None"
            /\ connected' = FALSE
            /\ live' = 0
            /\ UNCHANGED sessionVars
    /\ UNCHANGED crash

\* Connect that keeps the session it replaces
ConnectKeepBoth(ok) ==
    /\ lastOp' = Op("connect", <<>>, <<>>)
    /\ ClearCall
    /\ IF ok
       THEN /\ stream' = "Some"
            /\ connected' = TRUE
            /\ live' = live + 1
            /\ wsState' = "Active"
            /\ ended' = FALSE
            /\ sent' = <<>>
       ELSE UNCHANGED <<clientVars, sessionVars>>
    /\ UNCHANGED crash

\* connect(): connect_async(APIURL).await? ; stream.replace ; connected = true
Connect(ok) ==
    /\ lastOp' = Op("connect", <<>>, <<>>)
    /\ ClearCall
    /\ IF ok
       THEN /\ stream' = "Some"
            /\ connected' = TRUE
            /\ live' = live + 1 - Replaced
            /\ wsState' = "Active"
            /\ ended' = FALSE
            /\ sent' = <<>>
       ELSE UNCHANGED <<clientVars, sessionVars>>
    /\ UNCHANGED crash

\* Disconnect with `self.stream.as_mut().unwrap()` for the `if let`
DisconnectUnwrap(outcome) ==
    /\ lastOp' = Op("disconnect", <<>>, <<>>)
    /\ ClearCall
    /\ IF stream = "Some"
       THEN WsClose(NormalClose, outcome) /\ UNCHANGED crash
       ELSE outcome = "unused" /\ crash' = "unwrap" /\ UNCHANGED sessionVars
    /\ UNCHANGED clientVars

\* disconnect(): close the socket if there is one, ignoring the result
Disconnect(outcome) ==
    /\ lastOp' = Op("disconnect", <<>>, <<>>)
    /\ ClearCall
    /\ IF stream = "Some"
       THEN WsClose(NormalClose, outcome)
       ELSE outcome = "unused" /\ UNCHANGED sessionVars
    /\ UNCHANGED <<clientVars, crash>>

\* Subscribe without the `symbols.is_empty()` return
SubscribeNoEmptyCheck(infos, id, outcome) ==
    /\ lastOp' = Op("subscribe", infos, id)
    /\ ClearCall
    /\ IF ~AllSupported(infos)
       THEN outcome = "unused" /\ crash' = "todo" /\ UNCHANGED sessionVars
       ELSE IF stream = "None"
       THEN outcome = "unused" /\ crash' = "expect" /\ UNCHANGED sessionVars
       ELSE WsSend(SubscribeRequest(infos, id), outcome) /\ UNCHANGED crash
    /\ UNCHANGED clientVars

\* subscribe(symbols, id)
Subscribe(infos, id, outcome) ==
    /\ lastOp' = Op("subscribe", infos, id)
    /\ ClearCall
    /\ IF infos = <<>>
       THEN outcome = "unused" /\ UNCHANGED <<sessionVars, crash>>
       ELSE IF ~AllSupported(infos)
       THEN outcome = "unused" /\ crash' = "todo" /\ UNCHANGED sessionVars
       ELSE IF stream = "None"
       THEN outcome = "unused" /\ crash' = "expect" /\ UNCHANGED sessionVars
       ELSE WsSend(SubscribeRequest(infos, id), outcome) /\ UNCHANGED crash
    /\ UNCHANGED clientVars

\* unsubscribe(symbols)
Unsubscribe(infos, outcome) ==
    /\ lastOp' = Op("unsubscribe", infos, <<>>)
    /\ ClearCall
    /\ IF infos = <<>>
       THEN outcome = "unused" /\ UNCHANGED <<sessionVars, crash>>
       ELSE IF ~AllSupported(infos)
       THEN outcome = "unused" /\ crash' = "todo" /\ UNCHANGED sessionVars
       ELSE IF stream = "None"
       THEN outcome = "unused" /\ UNCHANGED <<sessionVars, crash>>
       ELSE WsSend(UnsubscribeRequest(infos), outcome) /\ UNCHANGED crash
    /\ UNCHANGED clientVars

\* next_message(), entry: `let stream = self.stream.as_mut()?;`
NextMessageCall ==
    /\ lastOp' = Op("next_message", <<>>, <<>>)
    /\ consumed' = <<>>
    /\ lastRead' = NoRead
    /\ nmResult' = IF stream = "None" THEN NmNone ELSE Pending
    /\ UNCHANGED <<clientVars, sessionVars, crash>>

\* HandleFrame whose Close arm leaves `connected` as it is
HandleFrameKeepConnected(frame, outcome) ==
    CASE frame.type = "Text" ->
            /\ outcome = "unused"
            /\ nmResult' = IF Decode(frame.json) = DecodeError
                           THEN Pending
                           ELSE NmSome(Decode(frame.json))
            /\ UNCHANGED <<clientVars, sessionVars, crash>>
      [] frame.type = "Ping" ->
            /\ WsSend(PongFrame(frame.bytes), outcome)
            /\ nmResult' = Pending
            /\ UNCHANGED <<clientVars, crash>>
      [] frame.type = "Pong" ->
            /\ WsSend(PingFrame(frame.bytes), outcome)
            /\ nmResult' = Pending
            /\ UNCHANGED <<clientVars, crash>>
      [] frame.type = "Close" ->
            /\ outcome = "unused"
            /\ wsState' = WsStateAfterRead(wsState, ended, frame)
            /\ nmResult' = Pending
            /\ UNCHANGED <<clientVars, sent, ended, crash>>
      [] frame.type \in {"Binary", "Frame"} ->
            /\ outcome = "unused"
            /\ crash' = "unimplemented"
            /\ nmResult' = Pending
            /\ UNCHANGED <<clientVars, sessionVars>>

\* HandleFrame that returns None on a text it cannot decode
HandleFrameStopOnBad(frame, outcome) ==
    CASE frame.type = "Text" ->
            /\ outcome = "unused"
            /\ nmResult' = IF Decode(frame.json) = DecodeError
                           THEN NmNone
                           ELSE NmSome(Decode(frame.json))
            /\ UNCHANGED <<clientVars, sessionVars, crash>>
      [] frame.type = "Ping" ->
            /\ WsSend(PongFrame(frame.bytes), outcome)
            /\ nmResult' = Pending
            /\ UNCHANGED <<clientVars, crash>>
      [] frame.type = "Pong" ->
            /\ WsSend(PingFrame(frame.bytes), outcome)
            /\ nmResult' = Pending
            /\ UNCHANGED <<clientVars, crash>>
      [] frame.type = "Close" ->
            /\ outcome = "unused"
            /\ connected' = FALSE
            /\ wsState' = WsStateAfterRead(wsState, ended, frame)
            /\ nmResult' = Pending
            /\ UNCHANGED <<stream, live, sent, ended, crash>>
      [] frame.type \in {"Binary", "Frame"} ->
            /\ outcome = "unused"
            /\ crash' = "unimplemented"
            /\ nmResult' = Pending
            /\ UNCHANGED <<clientVars, sessionVars>>

\* HandleFrame that answers a keep-alive with an empty payload
HandleFrameEmptyReply(frame, outcome) ==
    CASE frame.type = "Text" ->
            /\ outcome = "unused"
            /\ nmResult' = IF Decode(frame.json) = DecodeError
                           THEN Pending
                           ELSE NmSome(Decode(frame.json))
            /\ UNCHANGED <<clientVars, sessionVars, crash>>
      [] frame.type = "Ping" ->
            /\ WsSend(PongFrame(0), outcome)
            /\ nmResult' = Pending
            /\ UNCHANGED <<clientVars, crash>>
      [] frame.type = "Pong" ->
            /\ WsSend(PingFrame(0), outcome)
            /\ nmResult' = Pending
            /\ UNCHANGED <<clientVars, crash>>
      [] frame.type = "Close" ->
            /\ outcome = "unused"
            /\ connected' = FALSE
            /\ wsState' = WsStateAfterRead(wsState, ended, frame)
            /\ nmResult' = Pending
            /\ UNCHANGED <<stream, live, sent, ended, crash>>
      [] frame.type \in {"Binary", "Frame"} ->
            /\ outcome = "unused"
            /\ crash' = "unimplemented"
            /\ nmResult' = Pending
            /\ UNCHANGED <<clientVars, sessionVars>>

\* HandleFrame whose Binary and Frame arms `continue`
HandleFrameSkipBinary(frame, outcome) ==
    CASE frame.type = "Text" ->
            /\ outcome = "unused"
            /\ nmResult' = IF Decode(frame.json) = DecodeError
                           THEN Pending
                           ELSE NmSome(Decode(frame.json))
            /\ UNCHANGED <<clientVars, sessionVars, crash>>
      [] frame.type = "Ping" ->
            /\ WsSend(PongFrame(frame.bytes), outcome)
            /\ nmResult' = Pending
            /\ UNCHANGED <<clientVars, crash>>
      [] frame.type = "Pong" ->
            /\ WsSend(PingFrame(frame.bytes), outcome)
            /\ nmResult' = Pending
            /\ UNCHANGED <<clientVars, crash>>
      [] frame.type = "Close" ->
            /\ outcome = "unused"
            /\ connected' = FALSE
            /\ wsState' = WsStateAfterRead(wsState, ended, frame)
            /\ nmResult' = Pending
            /\ UNCHANGED <<stream, live, sent, ended, crash>>
      [] frame.type \in {"Binary", "Frame"} ->
            /\ outcome = "unused"
            /\ nmResult' = Pending
            /\ UNCHANGED <<clientVars, sessionVars, crash>>

\* next_message(), the match on one frame that stream.next() yielded
HandleFrame(frame, outcome) ==
    CASE frame.type = "Text" ->
            /\ outcome = "unused"
            /\ nmResult' = IF Decode(frame.json) = DecodeError
                           THEN Pending
                           ELSE NmSome(Decode(frame.json))
            /\ UNCHANGED <<clientVars, sessionVars, crash>>
      [] frame.type = "Ping" ->
            /\ WsSend(PongFrame(frame.bytes), outcome)
            /\ nmResult' = Pending
            /\ UNCHANGED <<clientVars, crash>>
      [] frame.type = "Pong" ->
            /\ WsSend(PingFrame(frame.bytes), outcome)
            /\ nmResult' = Pending
            /\ UNCHANGED <<clientVars, crash>>
      [] frame.type = "Close" ->
            /\ outcome = "unused"
            /\ connected' = FALSE
            /\ wsState' = WsStateAfterRead(wsState, ended, frame)
            /\ nmResult' = Pending
            /\ UNCHANGED <<stream, live, sent, ended, crash>>
      [] frame.type \in {"Binary", "Frame"} ->
            /\ outcome = "unused"
            /\ crash' = "unimplemented"
            /\ nmResult' = Pending
            /\ UNCHANGED <<clientVars, sessionVars>>

\* next_message(), one turn of the loop: `match stream.next().await?`
NextMessageStep(wire, outcome) ==
    /\ nmResult = Pending
    /\ lastRead' = Read(wire, WsRead(wsState, ended, wire))
    /\ CASE WsRead(wsState, ended, wire) = "Ok" ->
                /\ consumed' = Append(consumed, wire)
                /\ HandleFrame(wire, outcome)
         [] WsRead(wsState, ended, wire) = "Err" ->
                /\ outcome = "unused"
                /\ wsState' = WsStateAfterRead(wsState, ended, wire)
                /\ ended' = TRUE
                /\ nmResult' = NmNone
                /\ UNCHANGED <<clientVars, sent, consumed, crash>>
         [] WsRead(wsState, ended, wire) = "End" ->
                /\ outcome = "unused"
                /\ wsState' = WsStateAfterRead(wsState, ended, wire)
                /\ ended' = TRUE
                /\ nmResult' = NmNone
                /\ UNCHANGED <<clientVars, sent, consumed, crash>>
    /\ UNCHANGED lastOp

(***************************************************************************)
(* Inputs.                                                                 *)
(***************************************************************************)
Outcomes == {"ok", "lost", "rejected", "unused"}

BtcAggTrade == SubscribeInfo("BTCUSDT", FeedAggTrade)

BtcDepth == SubscribeInfo("BTCUSDT", FeedPartialDepth(5, "ONEHUNDRED"))

BtcFullDepth == SubscribeInfo("BTCUSDT", FeedFullDepth)

\* main.rs:27-30  `symbols`
MainSymbols == {<<BtcAggTrade, BtcDepth>>}

\* descriptor lists a caller passes
CallerSymbols ==
    {<<>>, <<BtcAggTrade, BtcDepth>>, <<BtcDepth, BtcAggTrade, BtcDepth>>, <<BtcFullDepth>>}

\* request ids a caller passes: None, Some(7)
CallerIds == {<<>>, <<7>>}

\* what the transport brings to main: one payload of each kind (a market
\* message, an acknowledgment, an undecodable text), a keep-alive, the close
\* frame, an unsupported frame, an error
MainEvents ==
    {TextIn(AggTradeJson), TextIn(AckJson(DefaultId)), TextIn(ErrorJson),
     PingIn(7), CloseIn, BinaryIn, IoErrorIn}

\* the transport may bring `wire` to the running next_message call
MayDeliver(wire) ==
    /\ ended <=> wire = NoEvent
    /\ wsState = "Broken" => wire \in {IoErrorIn, NoEvent}
    /\ IsFrame(wire) => Len(consumed) < MaxFrames
    /\ wire.type \in {"Ping", "Pong"} => Len(sent) < MaxSent

(***************************************************************************)
(* SpecApi: a caller of one BinanceApi.                                    *)
(***************************************************************************)
NotMain == UNCHANGED <<mainVars, timerVars>>

AfterCall == IF crash' # "none" THEN "panicked" ELSE "idle"

InitApi ==
    /\ New
    /\ pc = "idle"
    /\ symbols = <<>>
    /\ symbols0 = <<>>
    /\ attempts = 0
    /\ tries = 0
    /\ sleeps = 0
    /\ rcResult = "none"
    /\ handled = <<>>
    /\ pendingTicks = 0
    /\ backlog = 0
    /\ burst = 0

ApiConnect ==
    /\ pc = "idle"
    /\ \E ok \in BOOLEAN : Connect(ok)
    /\ pc' = AfterCall
    /\ NotMain

ApiDisconnect ==
    /\ pc = "idle"
    /\ Len(sent) < MaxSent
    /\ \E outcome \in Outcomes : Disconnect(outcome)
    /\ pc' = AfterCall
    /\ NotMain

ApiSubscribe ==
    /\ pc = "idle"
    /\ Len(sent) < MaxSent
    /\ \E infos \in CallerSymbols, id \in CallerIds, outcome \in Outcomes :
            Subscribe(infos, id, outcome)
    /\ pc' = AfterCall
    /\ NotMain

ApiUnsubscribe ==
    /\ pc = "idle"
    /\ Len(sent) < MaxSent
    /\ \E infos \in CallerSymbols, outcome \in Outcomes : Unsubscribe(infos, outcome)
    /\ pc' = AfterCall
    /\ NotMain

ApiNextMessage ==
    /\ pc = "idle"
    /\ NextMessageCall
    /\ pc' = IF nmResult' = Pending THEN "calling" ELSE "idle"
    /\ NotMain

ApiRead ==
    /\ pc = "calling"
    /\ \E wire \in Events \cup {NoEvent}, outcome \in Outcomes :
            MayDeliver(wire) /\ NextMessageStep(wire, outcome)
    /\ pc' = IF crash' # "none" THEN "panicked"
             ELSE IF nmResult' = Pending THEN "calling" ELSE "idle"
    /\ NotMain

NextApi ==
    \/ ApiConnect
    \/ ApiDisconnect
    \/ ApiSubscribe
    \/ ApiUnsubscribe
    \/ ApiNextMessage
    \/ ApiRead

SpecApi == InitApi /\ [][NextApi]_vars

(***************************************************************************)
(* SpecDecode: the decoder on its inputs.  A connected client reads one    *)
(* text frame per next_message call; its payload is any union of the       *)
(* blocks of keys below, so that every documented shape, every partial     *)
(* shape and every overlap of shapes is decoded.                           *)
(***************************************************************************)
\* keys of the wire shapes: those the aggregate trade and the book ticker
\* share, those of one shape only, a protocol error's
PayloadBlocks ==
    { {"a", "s"},
      {"e", "E", "p", "q", "f", "l", "T", "m"},
      {"u", "b", "B", "A"},
      {"lastUpdateId"},
      {"bids", "asks"},
      {"id"},
      {"result"},
      {"code", "msg"} }

\* values under "id": the default, the ends of u8, the first value beyond
PayloadIds == {DefaultId, U8Max, U8Max + 1}

Payloads ==
    { Json(UNION blocks, id) :
        blocks \in SUBSET PayloadBlocks, id \in PayloadIds \cup {0} }

PayloadOk(json) == ("id" \in json.keys) <=> (json.id \in PayloadIds)

DecodeRead ==
    /\ pc = "calling"
    /\ consumed = <<>>
    /\ wsState = "Active"
    /\ \E json \in Payloads :
            PayloadOk(json) /\ NextMessageStep(TextIn(json), "unused")
    /\ pc' = IF nmResult' = Pending THEN "calling" ELSE "idle"
    /\ NotMain

NextDecode ==
    \/ ApiConnect
    \/ ApiNextMessage
    \/ DecodeRead

SpecDecode == InitApi /\ [][NextDecode]_vars

(***************************************************************************)
(* SpecTokens: the wire tokens.  A connected client subscribes once, to    *)
(* one or two descriptors of any channel identifier.                       *)
(***************************************************************************)
\* every value of enum Feed
Feeds ==
    {FeedAggTrade, FeedTrade, FeedBookTicker, FeedFullDepth}
        \cup {FeedPartialDepth(levels, delay) : levels \in DepthLevels, delay \in Delays}

FeedLists ==
    {<<SubscribeInfo("BTCUSDT", f)>> : f \in Feeds}
        \cup {<<SubscribeInfo("BTCUSDT", f), SubscribeInfo("BTCUSDT", g)>> : f \in Feeds, g \in Feeds}

TokenSubscribe ==
    /\ pc = "idle"
    /\ wsState = "Active"
    /\ sent = <<>>
    /\ \E infos \in FeedLists, outcome \in Outcomes : Subscribe(infos, <<>>, outcome)
    /\ pc' = AfterCall
    /\ NotMain

NextTokens ==
    \/ ApiConnect
    \/ TokenSubscribe

SpecTokens == InitApi /\ [][NextTokens]_vars

(***************************************************************************)
(* reconnection_timer: tokio::time::interval(86400 s) (main.rs:36-38).     *)
(***************************************************************************)
\* the timer set to MissedTickBehavior::Skip
MissedTickSkip == "Skip"

\* main.rs:37  set_missed_tick_behavior(MissedTickBehavior::Burst)
MissedTickBehavior == "Burst"

\* ticks still due after one tick() has returned: Burst returns the missed
\* ticks one by one, each at once; Skip and Delay drop them
AfterTick(behavior, due) == IF behavior = "Burst" THEN due - 1 ELSE 0

\* reconnection_timer.tick() returns
Tick ==
    /\ pendingTicks > 0
    /\ pendingTicks' = AfterTick(MissedTickBehavior, pendingTicks)
    /\ burst' = burst + 1
    /\ UNCHANGED backlog

(***************************************************************************)
(* Spec: main() and try_reconnect (main.rs).                               *)
(***************************************************************************)
\* the error connect() returns: `?` wraps tungstenite's error by From
ConnectError == "WebSocketError"

\* try_reconnect, `return Err(x)`: x is the error of the connect that failed
GiveUpError(x) == x

Init ==
    /\ New
    /\ pc = "connect0"
    /\ symbols \in MainSymbols
    /\ symbols0 = symbols
    /\ attempts = 0
    /\ tries = 0
    /\ sleeps = 0
    /\ rcResult = "none"
    /\ handled = <<>>
    /\ pendingTicks = 0
    /\ backlog = 0
    /\ burst = 0

\* main.rs:33  api.connect().await?
MainConnect ==
    /\ pc = "connect0"
    /\ \E ok \in BOOLEAN :
            /\ Connect(ok)
            /\ pc' = IF ok THEN "timer_new" ELSE "exit_err"
    /\ UNCHANGED <<mainVars, timerVars>>

\* main.rs:36-37  the interval is created; its first tick is due at once
MainTimerNew ==
    /\ pc = "timer_new"
    /\ pendingTicks' = 1
    /\ backlog' = 1
    /\ burst' = 0
    /\ pc' = "tick0"
    /\ UNCHANGED <<clientVars, sessionVars, callVars, crash, lastOp, mainVars>>

\* main.rs:38  reconnection_timer.tick().await
MainFirstTick ==
    /\ pc = "tick0"
    /\ Tick
    /\ pc' = "subscribe0"
    /\ UNCHANGED <<clientVars, sessionVars, callVars, crash, lastOp, mainVars>>

\* main.rs:40  api.subscribe(&symbols, None).await
MainSubscribe ==
    /\ pc = "subscribe0"
    /\ \E outcome \in Outcomes : Subscribe(symbols, <<>>, outcome)
    /\ pc' = IF crash' # "none" THEN "panicked" ELSE "select"
    /\ UNCHANGED <<mainVars, timerVars>>

\* main.rs:44  select! polls a new api.next_message()
MainPoll ==
    /\ pc = "select"
    /\ NextMessageCall
    /\ pc' = IF nmResult' = Pending THEN "reading" ELSE "rc_disconnect"
    /\ UNCHANGED <<mainVars, timerVars>>

\* the n-th decodable payload the exchange produces on a session of main:
\* market messages and acknowledgments in turn
Produced(n) == IF n % 2 = 1 THEN AggTradeJson ELSE AckJson(DefaultId)

\* the transport may bring main one more message to match
MayHandle(wire) ==
    (wire.type = "Text" /\ Decode(wire.json) # DecodeError) =>
        /\ Len(handled) < MaxHandled
        /\ wire.json = Produced(Len(handled) + 1)

\* MainRead in which a tick that is due takes the message's place: the
\* message that next_message returns is dropped
MainReadTimerFirst ==
    /\ pc = "reading"
    /\ \E wire \in MainEvents \cup {NoEvent}, outcome \in Outcomes :
            /\ MayDeliver(wire)
            /\ MayHandle(wire)
            /\ NextMessageStep(wire, outcome)
    /\ handled' = IF nmResult'.kind = "Some" /\ pendingTicks = 0
                  THEN Append(handled, nmResult'.msg)
                  ELSE handled
    /\ pc' = IF crash' # "none" THEN "panicked"
             ELSE IF nmResult' = Pending THEN "reading"
             ELSE IF nmResult' = NmNone THEN "rc_disconnect"
             ELSE "select"
    /\ UNCHANGED <<symbols, symbols0, attempts, tries, sleeps, rcResult, timerVars>>

\* main.rs:44-61  next_message runs on; Some(msg) is matched, None reconnects
MainRead ==
    /\ pc = "reading"
    /\ \E wire \in MainEvents \cup {NoEvent}, outcome \in Outcomes :
            /\ MayDeliver(wire)
            /\ MayHandle(wire)
            /\ NextMessageStep(wire, outcome)
    /\ handled' = IF nmResult'.kind = "Some"
                  THEN Append(handled, nmResult'.msg)
                  ELSE handled
    /\ pc' = IF crash' # "none" THEN "panicked"
             ELSE IF nmResult' = Pending THEN "reading"
             ELSE IF nmResult' = NmNone THEN "rc_disconnect"
             ELSE "select"
    /\ UNCHANGED <<symbols, symbols0, attempts, tries, sleeps, rcResult, timerVars>>

\* the timer branch reconnecting only when the session is not open
MainTimerFiresIfUnhealthy ==
    /\ pc \in {"select", "reading"}
    /\ Tick
    /\ ClearCall
    /\ pc' = IF wsState = "Active" THEN "select" ELSE "rc_disconnect"
    /\ UNCHANGED <<clientVars, sessionVars, crash, lastOp, mainVars>>

\* main.rs:62-65  the timer branch wins; the next_message future is dropped
MainTimerFires ==
    /\ pc \in {"select", "reading"}
    /\ Tick
    /\ ClearCall
    /\ pc' = "rc_disconnect"
    /\ UNCHANGED <<clientVars, sessionVars, crash, lastOp, mainVars>>

\* try_reconnect without its api.disconnect()
ReconnectNoDisconnect ==
    /\ pc = "rc_disconnect"
    /\ attempts' = 0
    /\ tries' = 0
    /\ sleeps' = 0
    /\ pc' = "rc_connect"
    /\ UNCHANGED <<clientVars, sessionVars, callVars, crash, lastOp>>
    /\ UNCHANGED <<symbols, symbols0, rcResult, handled, timerVars>>

\* main.rs:74-77  attempts = 0; api.disconnect().await
ReconnectDisconnect ==
    /\ pc = "rc_disconnect"
    /\ attempts' = 0
    /\ tries' = 0
    /\ sleeps' = 0
    /\ \E outcome \in Outcomes : Disconnect(outcome)
    /\ pc' = "rc_connect"
    /\ UNCHANGED <<symbols, symbols0, rcResult, handled, timerVars>>

\* main.rs:78-80  while let Err(x) = api.connect().await { attempts += 1; ...
ReconnectConnect ==
    /\ pc = "rc_connect"
    /\ tries' = tries + 1
    /\ \E ok \in BOOLEAN :
            /\ Connect(ok)
            /\ attempts' = IF ok THEN attempts ELSE attempts + 1
            /\ handled' = IF ok THEN <<>> ELSE handled
            /\ pc' = IF ok THEN "rc_subscribe" ELSE "rc_sleep"
    /\ UNCHANGED <<symbols, symbols0, sleeps, rcResult, timerVars>>

\* main.rs:81  tokio::time::sleep(5 s).await
ReconnectSleep ==
    /\ pc = "rc_sleep"
    /\ sleeps' = sleeps + 1
    /\ pc' = "rc_check"
    /\ UNCHANGED <<clientVars, sessionVars, callVars, crash, lastOp, timerVars>>
    /\ UNCHANGED <<symbols, symbols0, attempts, tries, rcResult, handled>>

\* ReconnectCheck that starts counting afresh where it should give up
ReconnectCheckRestart ==
    /\ pc = "rc_check"
    /\ pc' = "rc_connect"
    /\ IF attempts > ReconnectCap
       THEN attempts' = 0 /\ tries' = 0 /\ sleeps' = 0
       ELSE UNCHANGED <<attempts, tries, sleeps>>
    /\ UNCHANGED <<rcResult, crash>>
    /\ UNCHANGED <<clientVars, sessionVars, callVars, lastOp, timerVars>>
    /\ UNCHANGED <<symbols, symbols0, handled>>

\* ReconnectCheck with `attempts >= 12` for `attempts > 12`
ReconnectCheckOffByOne ==
    /\ pc = "rc_check"
    /\ IF attempts >= ReconnectCap
       THEN /\ rcResult' = GiveUpError(ConnectError)
            /\ crash' = "expect"
            /\ pc' = "panicked"
       ELSE /\ pc' = "rc_connect"
            /\ UNCHANGED <<rcResult, crash>>
    /\ UNCHANGED <<clientVars, sessionVars, callVars, lastOp, timerVars>>
    /\ UNCHANGED <<symbols, symbols0, attempts, tries, sleeps, handled>>

\* main.rs:82-84  if attempts > 12 { return Err(x) }; main's expect panics
ReconnectCheck ==
    /\ pc = "rc_check"
    /\ IF attempts > ReconnectCap
       THEN /\ rcResult' = GiveUpError(ConnectError)
            /\ crash' = "expect"
            /\ pc' = "panicked"
       ELSE /\ pc' = "rc_connect"
            /\ UNCHANGED <<rcResult, crash>>
    /\ UNCHANGED <<clientVars, sessionVars, callVars, lastOp, timerVars>>
    /\ UNCHANGED <<symbols, symbols0, attempts, tries, sleeps, handled>>

\* ReconnectSubscribe returning the error of a send that failed
ReconnectSubscribeChecked ==
    /\ pc = "rc_subscribe"
    /\ \E outcome \in Outcomes :
            /\ Subscribe(symbols, <<>>, outcome)
            /\ rcResult' = IF crash' # "none" THEN rcResult
                           ELSE IF outcome = "ok" THEN "Ok" ELSE "WebSocketError"
            /\ pc' = IF crash' # "none" \/ outcome # "ok" THEN "panicked" ELSE "select"
    /\ UNCHANGED <<symbols, symbols0, attempts, tries, sleeps, handled, timerVars>>

\* ReconnectSubscribe without the call of subscribe
ReconnectSubscribeForgotten ==
    /\ pc = "rc_subscribe"
    /\ rcResult' = "Ok"
    /\ pc' = "select"
    /\ UNCHANGED <<clientVars, sessionVars, callVars, crash, lastOp, timerVars>>
    /\ UNCHANGED <<symbols, symbols0, attempts, tries, sleeps, handled>>

\* main.rs:86-90  api.subscribe(symbols, None).await; Ok(())
ReconnectSubscribe ==
    /\ pc = "rc_subscribe"
    /\ \E outcome \in Outcomes : Subscribe(symbols, <<>>, outcome)
    /\ rcResult' = IF crash' # "none" THEN rcResult ELSE "Ok"
    /\ pc' = IF crash' # "none" THEN "panicked" ELSE "select"
    /\ UNCHANGED <<symbols, symbols0, attempts, tries, sleeps, handled, timerVars>>

\* 24 h pass.  A tick that is already due stays unserved only while main is
\* blocked inside try_reconnect, in a connect that does not return.
IntervalElapses ==
    /\ pc \in {"select", "reading", "rc_connect"}
    /\ pendingTicks = 0 \/ pc = "rc_connect"
    /\ pendingTicks < MaxMissed
    /\ pendingTicks' = pendingTicks + 1
    /\ backlog' = pendingTicks + 1
    /\ burst' = 0
    /\ UNCHANGED <<clientVars, sessionVars, callVars, crash, pc, lastOp, mainVars>>

Next ==
    \/ MainConnect
    \/ MainTimerNew
    \/ MainFirstTick
    \/ MainSubscribe
    \/ MainPoll
    \/ MainRead
    \/ MainTimerFires
    \/ ReconnectDisconnect
    \/ ReconnectConnect
    \/ ReconnectSleep
    \/ ReconnectCheck
    \/ ReconnectSubscribe
    \/ IntervalElapses

Spec == Init /\ [][Next]_vars

\* every call that try_reconnect awaits returns: disconnect, connect (with
\* either outcome), the 5 s sleep, the cap check that follows it, subscribe
SpecFair ==
    /\ Spec
    /\ WF_vars(ReconnectDisconnect)
    /\ WF_vars(ReconnectConnect)
    /\ WF_vars(ReconnectSleep)
    /\ WF_vars(ReconnectCheck)
    /\ WF_vars(ReconnectSubscribe)

(***************************************************************************)
(* Vocabulary of the properties.  A frame counts as sent when the session  *)
(* took it for transmission (outcome ok or lost): a refused frame never    *)
(* leaves the client.  Whether a sent frame arrives is the transport's     *)
(* matter; the client ignores the result of every send.                    *)
(***************************************************************************)
WasSent(entry) == entry.outcome \in {"ok", "lost"}

\* positions in `log` of the sent frames that satisfy Test
SentWhere(log, Test(_)) == {i \in 1..Len(log) : WasSent(log[i]) /\ Test(log[i].frame)}

IsSubscribe(frame) == frame.type = "Text" /\ frame.method = "SUBSCRIBE"

IsClose(frame) == frame.type = "Close"

\* the entries the last operation added to the log
Added == SubSeq(sent, lastOp.pre.nsent + 1, Len(sent))

\* the client and its session are as the last operation found them
SameAsPre ==
    /\ stream = lastOp.pre.stream
    /\ connected = lastOp.pre.connected
    /\ wsState = lastOp.pre.wsState
    /\ ended = lastOp.pre.ended

\* try_reconnect has given up
GaveUp == rcResult \notin {"none", "Ok"}

(***************************************************************************)
(* C1.  A reconnect cycle in which every connect fails.                    *)
(***************************************************************************)
\* C1 as stated: when the cycle aborts, exactly 12 waits of the delay have
\* been taken, the abort is on the 13th consecutive failure, and there is
\* never a 14th connect attempt.
C1_TwelveWaits ==
    /\ tries <= ReconnectCap + 1
    /\ GaveUp =>
        /\ sleeps = ReconnectCap
        /\ attempts = ReconnectCap + 1
        /\ tries = ReconnectCap + 1

\* C1 amended: every failed connect, the 13th included, is followed by one
\* wait of the delay, so 13 waits have been taken when the cycle aborts; the
\* abort is on the 13th consecutive failure, after 12 retries, and there is
\* never a 14th connect attempt.
C1_ThirteenWaits ==
    /\ tries <= ReconnectCap + 1
    /\ pc = "rc_connect" => sleeps = attempts /\ tries = attempts
    /\ GaveUp =>
        /\ sleeps = ReconnectCap + 1
        /\ attempts = ReconnectCap + 1
        /\ tries = ReconnectCap + 1

C1_Witness == GaveUp /\ pc = "panicked" /\ tries = ReconnectCap + 1

(***************************************************************************)
(* C2.  The error of a cycle that gave up.                                 *)
(***************************************************************************)
\* C2 as stated: when try_reconnect gives up because attempts exceeded the
\* cap, the error it returns is ReconnectionTimeout.
C2_ReconnectionTimeout == GaveUp => rcResult = "ReconnectionTimeout"

C4_ClosedYieldsNothing ==
    wsState = "Closed" =>
        /\ connected = FALSE
        /\ nmResult.kind \in {"NoCall", "Pending", "None"}
        /\ lastRead.result = "Ok" => lastRead.wire = CloseIn

C4_Witness ==
    /\ wsState = "Closed"
    /\ connected = FALSE
    /\ consumed = <<CloseIn>>
    /\ lastRead = Read(TextIn(AggTradeJson), "Err")
    /\ nmResult = NmNone

(***************************************************************************)
(* C5.  Undecodable text frames.                                           *)
(***************************************************************************)
IsText(frame) == frame.type = "Text"

Undecodable(frame) == IsText(frame) /\ Decode(frame.json) = DecodeError

\* C5: a message that next_message returns is the decoding of the last text
\* frame it read, and every text frame it read before that one is undecodable;
\* a call that has read nothing but undecodable text frames is still running,
\* has raised nothing and has left the client and its session as they were;
\* and where there is a session, the call returns None only after a read that
\* yielded no frame.
C5_SkipsUndecodable ==
    /\ nmResult.kind = "Some" =>
        /\ consumed # <<>>
        /\ IsText(consumed[Len(consumed)])
        /\ ~Undecodable(consumed[Len(consumed)])
        /\ nmResult.msg.variant \in {"AggTrade", "PartialDepth", "BookTicker", "SubscribeSuccess"}
        /\ nmResult.msg = Decode(consumed[Len(consumed)].json)
        /\ \A i \in 1..(Len(consumed) - 1) : IsText(consumed[i]) => Undecodable(consumed[i])
    /\ (lastOp.name = "next_message" /\ \A i \in 1..Len(consumed) : Undecodable(consumed[i])) =>
        /\ lastRead.result \in {"Ok", "NoRead"} /\ lastOp.pre.stream = "Some" => nmResult = Pending
        /\ crash = "none"
        /\ stream = lastOp.pre.stream
        /\ connected = lastOp.pre.connected
        /\ Len(sent) = lastOp.pre.nsent
        /\ lastRead.result \in {"Ok", "NoRead"} => wsState = lastOp.pre.wsState /\ ended = lastOp.pre.ended

C5_Witness ==
    /\ nmResult = NmSome(Decoded("AggTrade", 0))
    /\ consumed = <<TextIn(ErrorJson), TextIn(AggTradeJson)>>
    /\ wsState = "Active"
    /\ connected

(***************************************************************************)
(* C6.  Keep-alive frames.                                                 *)
(***************************************************************************)
IsKeepAlive(frame) == frame.type \in {"Ping", "Pong"}

\* the answer the claim wants for a keep-alive frame
Answer(frame) ==
    IF frame.type = "Ping" THEN PongFrame(frame.bytes) ELSE PingFrame(frame.bytes)

KeepAlivesRead == SelectSeq(consumed, IsKeepAlive)

\* what C6 and its amendment share: next_message hands the session one answer
\* for each keep-alive frame it read, in order and with the same payload;
\* no keep-alive frame is returned; the loop goes on after one.
C6_Answers ==
    /\ lastOp.name = "next_message" =>
        /\ Len(Added) = Len(KeepAlivesRead)
        /\ \A i \in 1..Len(Added) : Added[i].frame = Answer(KeepAlivesRead[i])
    /\ nmResult.kind = "Some" => IsText(consumed[Len(consumed)])
    /\ (lastRead.result = "Ok" /\ IsKeepAlive(lastRead.wire)) => nmResult = Pending

C7_Released ==
    (/\ lastOp.name = "disconnect"
     /\ lastOp.pre.stream = "Some"
     /\ lastOp.pre.connected
     /\ lastOp.pre.wsState = "Active") =>
        /\ Len(Added) = 1
        /\ Added[1].frame = NormalClose
        /\ WasSent(Added[1])
        /\ stream = "None"
        /\ connected = FALSE

\* the client was already disconnected when the last operation began: it
\* never connected, or its session had been closed by an earlier disconnect(),
\* by the peer's close frame or by the end of the byte stream
AlreadyDisconnected ==
    \/ lastOp.pre.stream = "None"
    \/ lastOp.pre.wsState \in {"ClosedByUs", "Closed", "Terminated"}

\* C8: disconnect() on an already disconnected client sends no frame, leaves
\* the client and its session as they were and raises nothing; no session
\* ever has two close frames sent on it, and after two disconnect() in a row
\* exactly one has been sent.
C8_DisconnectAgainNoOp ==
    /\ Cardinality(SentWhere(sent, IsClose)) <= 1
    /\ (lastOp.name = "disconnect" /\ AlreadyDisconnected) =>
        /\ SameAsPre
        /\ crash = "none"
        /\ \A i \in 1..Len(Added) : ~WasSent(Added[i])
        /\ lastOp.pre.wsState = "ClosedByUs" => Cardinality(SentWhere(sent, IsClose)) = 1

C8_Witness ==
    /\ lastOp.name = "disconnect"
    /\ lastOp.pre.wsState = "ClosedByUs"
    /\ sent = <<Sent(NormalClose, "ok"), Sent(NormalClose, "rejected")>>

(***************************************************************************)
(* C9.  Missed ticks of the refresh timer.                                 *)
(***************************************************************************)
\* C9 as stated: missed ticks are not queued: however many intervals have
\* elapsed unserved, the timer fires once, so that at most one tick is
\* returned, and one reconnect cycle started, until an interval elapses again.
C9_FiresOnce == burst <= 1

\* C9 amended: missed ticks are queued: the timer fires once for every
\* interval that has elapsed, the missed ticks at once and one after the other,
\* and each starts a reconnect cycle of its own.  The ticks returned since an
\* interval last elapsed and the ticks still due add up to the ticks that
\* were due then.
C9_BurstsMissedTicks == burst + pendingTicks = backlog

C9_Witness ==
    /\ pc = "rc_disconnect"
    /\ backlog = 2
    /\ burst = 2
    /\ pendingTicks = 0
    /\ rcResult = "Ok"

(***************************************************************************)
(* C10.  subscribe and unsubscribe with no descriptor.                     *)
(***************************************************************************)
\* C10: subscribe and unsubscribe called with an empty list hand no frame to
\* the session, raise nothing and leave the client and its session as they
\* were, whatever the state of the connection.
C10_EmptyListNoOp ==
    (lastOp.name \in {"subscribe", "unsubscribe"} /\ lastOp.infos = <<>>) =>
        /\ SameAsPre
        /\ Len(sent) = lastOp.pre.nsent
        /\ crash = "none"

C10_Witness ==
    /\ lastOp.name = "subscribe"
    /\ lastOp.infos = <<>>
    /\ stream = "None"
    /\ pc = "idle"

(***************************************************************************)
(* C11.  One request frame per call.                                       *)
(***************************************************************************)
\* the last operation was subscribe or unsubscribe, called with descriptors
\* that all have a wire token
IsRequestCall ==
    /\ lastOp.name \in {"subscribe", "unsubscribe"}
    /\ lastOp.infos # <<>>
    /\ AllSupported(lastOp.infos)

\* the id the request of the last operation has to carry
WantedId ==
    IF lastOp.name = "subscribe" /\ lastOp.id # <<>> THEN lastOp.id[1] ELSE 1

C12_SilentNoOp ==
    (/\ lastOp.name = "unsubscribe"
     /\ lastOp.infos # <<>>
     /\ AllSupported(lastOp.infos)
     /\ AlreadyDisconnected) =>
        /\ Added = <<>>
        /\ SameAsPre
        /\ crash = "none"

(***************************************************************************)
(* C13.  subscribe on a client that holds no session.                      *)
(***************************************************************************)
\* C13 as stated: subscribe with a non-empty list of descriptors on a client
\* that holds no session fails with an error the caller can recover from: the
\* client does not crash, the caller goes on, and nothing was sent.
C13_RecoverableFailure ==
    (/\ lastOp.name = "subscribe"
     /\ lastOp.infos # <<>>
     /\ AllSupported(lastOp.infos)
     /\ lastOp.pre.stream = "None") =>
        /\ crash = "none"
        /\ pc # "panicked"
        /\ Added = <<>>

(***************************************************************************)
(* C14, C15.  The decoder.                                                 *)
(***************************************************************************)
\* next_message has just read a text frame
ReadText ==
    /\ lastOp.name = "next_message"
    /\ lastRead.result = "Ok"
    /\ lastRead.wire.type = "Text"
    /\ consumed = <<lastRead.wire>>

\* what that payload decoded to: a variant, or "Err" and the call goes on
DecodedAs ==
    CASE nmResult.kind = "Some" -> nmResult.msg.variant
      [] nmResult = Pending -> "Err"
      [] OTHER -> "None"

\* the well-formed payloads of each documented wire shape; an acknowledgment
\* carries a small integer under "id"
WellFormed(variant) ==
    CASE variant = "AggTrade" ->
            {Json({"e", "E", "s", "a", "p", "q", "f", "l", "T", "m"}, 0)}
      [] variant = "PartialDepth" -> {Json({"lastUpdateId", "bids", "asks"}, 0)}
      [] variant = "BookTicker" -> {Json({"u", "s", "b", "B", "a", "A"}, 0)}
      [] variant = "SubscribeSuccess" -> {Json({"result", "id"}, 1), Json({"result", "id"}, 255)}

Variants == {"AggTrade", "PartialDepth", "BookTicker", "SubscribeSuccess"}

\* C14: a well-formed payload of each of the four documented wire shapes
\* decodes to the variant of its own shape: no variant tried before it takes
\* the payload.
C14_OwnVariant ==
    \A variant \in Variants :
        (ReadText /\ lastRead.wire.json \in WellFormed(variant)) => DecodedAs = variant

C14_Witness ==
    /\ ReadText
    /\ lastRead.wire.json \in WellFormed("PartialDepth")
    /\ nmResult = NmSome(Decoded("PartialDepth", 0))
    /\ pc = "idle"

\* the structural match of a payload with a variant
Satisfies(json, variant) ==
    CASE variant = "AggTrade" -> MatchesAggTrade(json)
      [] variant = "PartialDepth" -> MatchesPartialDepth(json)
      [] variant = "BookTicker" -> MatchesBookTicker(json)
      [] variant = "SubscribeSuccess" -> MatchesSubscribeSuccess(json)

\* the first variant of `order` that the payload satisfies, "Err" if none
FirstMatch(json, order) ==
    IF \E i \in 1..Len(order) : Satisfies(json, order[i])
    THEN order[CHOOSE i \in 1..Len(order) :
                    /\ Satisfies(json, order[i])
                    /\ \A k \in 1..(i - 1) : ~Satisfies(json, order[k])]
    ELSE "Err"

\* C15 as stated: the decoder returns the first structural match in the order
\* SubscribeAck, BestBidOffer, PartialDepth, AggregateTrade, and fails on a
\* payload that satisfies no variant.
C15_AckFirst ==
    ReadText =>
        DecodedAs = FirstMatch(lastRead.wire.json,
                        <<"SubscribeSuccess", "BookTicker", "PartialDepth", "AggTrade">>)

\* C15 amended: the decoder returns the first structural match in the order
\* AggregateTrade, PartialDepth, BestBidOffer, SubscribeAck, unknown fields
\* being ignored, and fails on a payload that satisfies no variant.
C15_AggTradeFirst ==
    ReadText =>
        DecodedAs = FirstMatch(lastRead.wire.json,
                        <<"AggTrade", "PartialDepth", "BookTicker", "SubscribeSuccess">>)

C15_Witness ==
    /\ ReadText
    /\ lastRead.wire.json = Json({"e", "E", "s", "a", "p", "q", "f", "l", "T", "m", "id"}, 1)
    /\ nmResult = NmSome(Decoded("AggTrade", 0))

(***************************************************************************)
(* C16.  When a connect failure is fatal.                                  *)
(***************************************************************************)
\* C16 as stated: the program ends on a connect failure only once the retry
\* cap has been exceeded: whenever main has returned the error of a connect,
\* or try_reconnect has given up, more than 12 connects have failed in a row,
\* each after a delay.
C16_FatalOnlyAfterCap ==
    (pc = "exit_err" \/ GaveUp) =>
        /\ tries > ReconnectCap
        /\ attempts > ReconnectCap
        /\ sleeps >= ReconnectCap

(***************************************************************************)
(* C17.  Unsupported frames.                                               *)
(***************************************************************************)
IsUnsupported(frame) == frame.type \in {"Binary", "Frame"}

\* C17: when next_message reads a binary frame or a raw frame it raises a
\* fatal internal error: the caller is aborted, the call has returned no
\* message, and that frame is the last thing the call read; next_message
\* raises that error for no other reason.
C17_UnsupportedIsFatal ==
    /\ \A i \in 1..Len(consumed) : IsUnsupported(consumed[i]) =>
            /\ i = Len(consumed)
            /\ lastRead = Read(consumed[i], "Ok")
            /\ crash = "unimplemented"
            /\ pc = "panicked"
            /\ nmResult = Pending
            /\ lastOp.name = "next_message"
    /\ crash = "unimplemented" => consumed # <<>> /\ IsUnsupported(consumed[Len(consumed)])

C17_Witness ==
    /\ crash = "unimplemented"
    /\ pc = "panicked"
    /\ consumed = <<TextIn(ErrorJson), RawFrameIn>>
    /\ lastRead = Read(RawFrameIn, "Ok")
    /\ wsState = "Active"

(***************************************************************************)
(* C18.  One session at a time.                                            *)
(***************************************************************************)
\* C18: in every reachable state at most one session exists, and it is the
\* one the client holds; a connect that succeeds on a client that already
\* holds a session leaves the fresh session in its place, not both.
C18_OneSession ==
    /\ live <= 1
    /\ live = 1 <=> stream = "Some"
    /\ (/\ lastOp.name = "connect"
        /\ lastOp.pre.stream = "Some"
        /\ lastOp.pre.wsState # "Active"
        /\ wsState = "Active") =>
            /\ live = 1
            /\ sent = <<>>
            /\ ended = FALSE

C18_Witness ==
    /\ lastOp.name = "connect"
    /\ lastOp.pre.stream = "Some"
    /\ lastOp.pre.wsState = "ClosedByUs"
    /\ lastOp.pre.nsent = 2
    /\ wsState = "Active"
    /\ stream = "Some"
    /\ live = 1

(***************************************************************************)
(* C19.  The token table.                                                  *)
(***************************************************************************)
\* the documented token of each supported channel identifier
TokenTable(feed) ==
    CASE feed = FeedAggTrade -> "aggTrade"
      [] feed = FeedTrade -> "trade"
      [] feed = FeedBookTicker -> "bookTicker"
      [] feed = FeedPartialDepth(5, "ONEHUNDRED") -> "depth5@100ms"
      [] feed = FeedPartialDepth(10, "ONEHUNDRED") -> "depth10@100ms"
      [] feed = FeedPartialDepth(20, "ONEHUNDRED") -> "depth20@100ms"
      [] feed = FeedPartialDepth(5, "ONETHOUSAND") -> "depth5"
      [] feed = FeedPartialDepth(10, "ONETHOUSAND") -> "depth10"
      [] feed = FeedPartialDepth(20, "ONETHOUSAND") -> "depth20"

\* C19: the token that a request carries for a descriptor of a supported
\* channel identifier is the one of the token table: aggTrade, trade,
\* bookTicker, and depth followed by the level and by @100ms for the 100 ms
\* delay only; descriptors of distinct identifiers get distinct tokens.
C19_TokenTable ==
    (/\ lastOp.name = "subscribe"
     /\ lastOp.infos # <<>>
     /\ AllSupported(lastOp.infos)
     /\ Len(sent) = 1) =>
        /\ Len(sent[1].frame.params) = Len(lastOp.infos)
        /\ \A i \in 1..Len(lastOp.infos) :
                sent[1].frame.params[i] = "btcusdt@" \o TokenTable(lastOp.infos[i].feed)
        /\ \A i, k \in 1..Len(lastOp.infos) :
                lastOp.infos[i].feed # lastOp.infos[k].feed =>
                    sent[1].frame.params[i] # sent[1].frame.params[k]

C19_Witness ==
    /\ lastOp.name = "subscribe"
    /\ lastOp.infos = <<SubscribeInfo("BTCUSDT", FeedPartialDepth(20, "ONETHOUSAND")),
                        SubscribeInfo("BTCUSDT", FeedTrade)>>
    /\ Len(sent) = 1
    /\ sent[1].frame.params = <<"btcusdt@depth20", "btcusdt@trade">>

(***************************************************************************)
(* C20.  Disconnect first, and nothing on the closed session.              *)
(***************************************************************************)
\* try_reconnect is between its disconnect and a connect that succeeds
Reconnecting == pc \in {"rc_connect", "rc_sleep", "rc_check"}

\* C20: in every reconnect cycle the session is disconnected before the first
\* connect attempt, and from then until a connect succeeds the client hands
\* that session no subscribe or unsubscribe request: the close frame is the
\* last frame it was given, and the only calls made are disconnect and
\* connect.
C20_NothingAfterDisconnect ==
    Reconnecting =>
        /\ stream = "Some"
        /\ wsState \in {"ClosedByUs", "Closed", "Terminated"}
        /\ sent # <<>>
        /\ IsClose(sent[Len(sent)].frame)
        /\ SentWhere(sent, IsClose) \subseteq {Len(sent)}
        /\ lastOp.name = (IF tries = 0 THEN "disconnect" ELSE "connect")
        /\ tries = attempts

C20_Witness ==
    /\ pc = "rc_check"
    /\ attempts = 2
    /\ wsState = "ClosedByUs"
    /\ Len(sent) = 2
    /\ IsSubscribe(sent[1].frame)
    /\ sent[2] = Sent(NormalClose, "ok")

(***************************************************************************)
(* C21.  What starts a reconnect cycle.                                    *)
(***************************************************************************)
\* main is in its select! loop
Running == pc \in {"select", "reading"}

\* this step, reconnection_timer.tick() returns
TickReturned == burst' = burst + 1

\* this step, next_message returns None
YieldedNothing == nmResult # NmNone /\ nmResult' = NmNone

\* C21: while main is in its loop, a step starts a reconnect cycle (which
\* begins with the disconnect) exactly when the refresh timer fires in it or
\* next_message yields nothing in it, whatever the state of the session.
C21_ReconnectTriggers ==
    [][Running => ((pc' = "rc_disconnect") <=> (TickReturned \/ YieldedNothing))]_vars

C21_Witness ==
    /\ pc = "rc_disconnect"
    /\ nmResult = NoCall
    /\ burst = 1
    /\ wsState = "Active"
    /\ connected
    /\ rcResult = "Ok"

(***************************************************************************)
(* C22.  Every reconnect cycle ends.                                       *)
(***************************************************************************)
\* try_reconnect is running
InCycle == pc \in {"rc_disconnect", "rc_connect", "rc_sleep", "rc_check", "rc_subscribe"}

\* C22: every reconnect cycle ends, whatever the connects return: back in
\* main's loop, which it reaches after its first connect that succeeds, or in
\* the one fatal failure; it makes at most 13 connect attempts, and after the
\* fatal failure no step is taken any more, so no further connect.
C22_CycleEnds ==
    /\ InCycle ~> (pc = "select" /\ rcResult = "Ok") \/ (pc = "panicked" /\ GaveUp)
    /\ [](tries <= ReconnectCap + 1)
    /\ [](pc = "rc_subscribe" => wsState = "Active" /\ tries = attempts + 1)
    /\ [][pc # "panicked"]_vars

C22_Witness ==
    /\ pc = "select"
    /\ rcResult = "Ok"
    /\ attempts = ReconnectCap
    /\ tries = ReconnectCap + 1
    /\ sleeps = ReconnectCap
    /\ wsState = "Active"

(***************************************************************************)
(* C23.  Acknowledgments and request ids.                                  *)
(***************************************************************************)
\* C23 as stated: the acknowledgment of a request, which echoes the request's
\* id, decodes to a SubscribeAck with that id and is returned by
\* next_message, for every id that subscribe accepts (any u32 value).
C23_AckEchoesId ==
    \A id \in PayloadIds :
        (ReadText /\ lastRead.wire.json = AckJson(id)) =>
            nmResult = NmSome(Decoded("SubscribeSuccess", id))

(***************************************************************************)
(* C24.  A connect that fails.                                             *)
(***************************************************************************)
\* C24: where the caller has just got Err from connect() (main returning it,
\* try_reconnect about to sleep), the client holds what it held before the
\* call, with the connected flag as it was, and its session is as it was;
\* where it has just got Ok, the client holds a fresh open session and the
\* flag is true.
C24_FailedConnectKeepsState ==
    /\ pc \in {"exit_err", "rc_sleep"} =>
        /\ lastOp.name = "connect"
        /\ SameAsPre
        /\ Len(sent) = lastOp.pre.nsent
        /\ live = (IF lastOp.pre.stream = "Some" THEN 1 ELSE 0)
    /\ pc \in {"timer_new", "rc_subscribe"} =>
        /\ lastOp.name = "connect"
        /\ stream = "Some"
        /\ connected = TRUE
        /\ wsState = "Active"
        /\ sent = <<>>
        /\ ended = FALSE
        /\ live = 1

C24_Witness ==
    /\ pc = "rc_sleep"
    /\ lastOp.name = "connect"
    /\ stream = "Some"
    /\ connected = FALSE
    /\ wsState = "Closed"
    /\ attempts = 1

(***************************************************************************)
(* C25.  Messages in the race with the timer.                              *)
(***************************************************************************)
\* this step, next_message decodes a message and returns it
Decodes == nmResult = Pending /\ nmResult'.kind = "Some"

\* this step, a connect installs a new session
NewSession == lastOp'.name = "connect" /\ wsState' = "Active" /\ sent' = <<>>

\* C25: in main's race of next_message with the refresh timer, the step in
\* which next_message decodes a message hands exactly that message to main's
\* match, once; what main has matched changes in no other step of a session,
\* so a tick of the timer neither drops nor repeats a message; and the
\* messages matched in a session are the ones the transport produced, in its
\* order.
C25_DeliveredOnce ==
    /\ [][Decodes => handled' = Append(handled, nmResult'.msg)]_vars
    /\ [][handled' # handled => Decodes \/ (NewSession /\ handled' = <<>>)]_vars
    /\ [](\A i \in 1..Len(handled) : handled[i] = Decode(Produced(i)))

C25_Witness ==
    /\ pc = "rc_disconnect"
    /\ nmResult = NoCall
    /\ burst = 1
    /\ wsState = "Active"
    /\ handled = <<Decoded("AggTrade", 0), Decoded("SubscribeSuccess", 1)>>

(***************************************************************************)
(* C26.  A subscribe whose send fails.                                     *)
(***************************************************************************)
\* the last operation was a subscribe whose request the transport failed to
\* send
SubscribeSendFailed ==
    /\ lastOp.name = "subscribe"
    /\ Len(Added) = 1
    /\ Added[1].outcome \in {"lost", "rejected"}

\* C26: a subscribe whose send fails returns normally: nothing is raised, the
\* client holds the session it held, with the connected flag as it was, and
\* the caller goes on; in a reconnect cycle try_reconnect then returns Ok and
\* main is back in its loop, though the request was not delivered.
C26_SendFailureUnreported ==
    SubscribeSendFailed =>
        /\ crash = "none"
        /\ stream = lastOp.pre.stream
        /\ connected = lastOp.pre.connected
        /\ live = 1
        /\ pc \in {"select", "rc_disconnect"}
        /\ tries > 0 => rcResult = "Ok"

C26_Witness ==
    /\ SubscribeSendFailed
    /\ pc = "select"
    /\ rcResult = "Ok"
    /\ tries = 2
    /\ sent = <<Sent(SubscribeRequest(symbols0, <<>>), "lost")>>
    /\ connected

=============================================================================
